---- MODULE Spec2Model ----
(***************************************************************************)
(* The Slider adapter of components/slider/index.tsx as a state machine.   *)
(*                                                                         *)
(* State: the props object and ref the component function receives, the    *)
(* ConfigContext value, the useState hook holding the visibility map       *)
(* together with React's queue of pending updaters, the drag and value     *)
(* state the wrapped rc-slider primitive reports through the handle        *)
(* generator's info argument, and the element the last render returned.    *)
(*                                                                         *)
(* JavaScript values are strings: "undefined", "null", "true", "false",    *)
(* opaque identifiers for functions and class names.  "absent" marks a key *)
(* an object does not own (reading it yields undefined, spreading it       *)
(* copies nothing).                                                        *)
(***************************************************************************)
EXTENDS Integers, Sequences, FiniteSets, TLC

VARIABLES props, ref, config, values, visibles, queue, dragging, element, lastHover

vars == <<props, ref, config, values, visibles, queue, dragging, element, lastHover>>

----------------------------------------------------------------------------
(* Bounds of the model *)

\* pending state updates React may hold before it re-renders
MaxQueue == 2

\* handle values range over -MaxValue .. MaxValue
MaxValue == 12

----------------------------------------------------------------------------
(* JavaScript values *)

Undefined == "undefined"

Null == "null"

True == "true"

False == "false"

Absent == "absent"

Bool(b) == IF b THEN True ELSE False

\* ToBoolean
Truthy(v) == v \notin {Undefined, Null, False, "", Absent}

\* !v
JsNot(v) == Bool(~Truthy(v))

\* a || b
JsOr(a, b) == IF Truthy(a) THEN a ELSE b

\* a && b
JsAnd(a, b) == IF Truthy(a) THEN b ELSE a

\* obj[k] / obj.k : a key the object does not own reads as undefined
Get(obj, k) == IF obj[k] = Absent THEN Undefined ELSE obj[k]

----------------------------------------------------------------------------
(* Types of the component *)

\* SliderRangeProps.value is a pair: the range primitive renders two handles
RangeHandles == 2

\* SliderSingleProps.value is one number: one handle
SingleHandles == 1

\* HandleGeneratorInfo.index
Index == 0 .. (RangeHandles - 1)

NoHandle == -1

\* HandleGeneratorInfo.value: a number, or missing; a non-number can only come
\* from an untyped caller
UndefinedValue == [type |-> "undefined", num |-> 0]

StringValue == [type |-> "string", num |-> 0]

Num(n) == [type |-> "number", num |-> n]

HandleValues == {UndefinedValue, StringValue} \cup {Num(n) : n \in (-MaxValue) .. MaxValue}

\* props.range: absent, a boolean, or a SliderRange object
NoRange == [type |-> "undefined", bool |-> False, draggableTrack |-> Absent]

BoolRange(b) == [type |-> "boolean", bool |-> b, draggableTrack |-> Absent]

ObjectRange(dt) == [type |-> "object", bool |-> False, draggableTrack |-> dt]

\* the keys of Partial<TooltipProps> the component also passes itself
BagKeys == {"prefixCls", "title", "visible", "placement", "overlayClassName", "getPopupContainer", "transitionName"}

EmptyBag == [k \in BagKeys |-> Absent]

\* props.tooltipProps: absent, or an object owning some of the keys
NoTooltipProps == [type |-> "undefined", own |-> EmptyBag]

TooltipPropsObject(own) == [type |-> "object", own |-> own]

\* Visibles: { [index: number]: boolean }
NoVisibles == [i \in Index |-> Absent]

----------------------------------------------------------------------------
(* Collaborators outside this file *)

\* ConfigContext.getPrefixCls(suffix?, customizePrefixCls?)
getPrefixCls(suffixCls, customizePrefixCls) ==
    IF Truthy(customizePrefixCls) THEN customizePrefixCls
    ELSE IF Truthy(suffixCls) THEN "ant-" \o suffixCls
    ELSE "ant"

\* _util/motion getTransitionName(rootPrefixCls, motion, transitionName)
getTransitionName(rootPrefixCls, motion, transitionName) ==
    IF transitionName # Undefined THEN transitionName
    ELSE rootPrefixCls \o "-" \o motion

\* a formatter the caller passes: value => `${value}%`
customFormatter(value) ==
    IF value.type = "number" THEN ToString(value.num) \o "%"
    ELSE IF value.type = "undefined" THEN "undefined%"
    ELSE "abc%"

----------------------------------------------------------------------------
(* Slider.defaultProps *)

Digit(d) ==
    CASE d = 0 -> "0" [] d = 1 -> "1" [] d = 2 -> "2" [] d = 3 -> "3" [] d = 4 -> "4"
      [] d = 5 -> "5" [] d = 6 -> "6" [] d = 7 -> "7" [] d = 8 -> "8" [] d = 9 -> "9"

RECURSIVE NatToString(_)
NatToString(n) ==
    IF n < 10 THEN Digit(n) ELSE NatToString(n \div 10) \o Digit(n % 10)

\* Number.prototype.toString() of an integer
NumberToString(n) == IF n < 0 THEN "-" \o NatToString(-n) ELSE NatToString(n)

\* a default formatter that formats whatever it is given
tipFormatterUnguarded(value) == NumberToString(value.num)

\* tipFormatter(value) { return typeof value === 'number' ? value.toString() : ''; }
tipFormatter(value) ==
    IF value.type = "number" THEN NumberToString(value.num) ELSE ""

\* calling the function a tipFormatter prop holds
CallFormatter(f, value) ==
    IF f = "Slider.defaultProps.tipFormatter" THEN tipFormatter(value)
    ELSE customFormatter(value)

\* React fills a prop that is undefined from defaultProps when the element is created
ResolveDefaultProps(p) ==
    IF Get(p, "tipFormatter") = Undefined
    THEN [p EXCEPT !.tipFormatter = "Slider.defaultProps.tipFormatter"]
    ELSE p

----------------------------------------------------------------------------
(* The visibility map: useState and toggleTooltipVisible *)

\* an updater that builds the next map from the map its render captured
updaterFromClosure(prev, captured, index, visible) == [captured EXCEPT ![index] = visible]

\* an updater that keeps only the entry it writes
updaterReplacing(prev, captured, index, visible) ==
    [k \in DOMAIN prev |-> IF k = index THEN visible ELSE Absent]

\* (prev: Visibles) => ({ ...prev, [index]: visible }); captured is the visibles
\* of the render that created the handler, which the updater does not read
updater(prev, captured, index, visible) == [prev EXCEPT ![index] = visible]

\* toggleTooltipVisible(index, visible): setVisibles enqueues the updater
toggleTooltipVisible(q, index, visible) ==
    Append(q, [index |-> index, visible |-> visible])

\* useState: a render applies the pending updaters in order, each to the result
\* of the one before
RECURSIVE useState(_, _, _)
useState(state, captured, q) ==
    IF q = <<>> THEN state
    ELSE useState(updater(state, captured, Head(q).index, Head(q).visible), captured, Tail(q))

\* a render that drops the entries of handles the primitive no longer shows
renderedVisiblesPruned(state, q, handles) ==
    [i \in DOMAIN state |->
        IF i \in handles THEN useState(state, state, q)[i] ELSE Absent]

\* const [visibles, setVisibles] = React.useState<Visibles>({}): the map a render
\* reads, whatever handles the primitive shows
renderedVisibles(state, q, handles) == useState(state, state, q)

----------------------------------------------------------------------------
(* The handle generator *)

\* getTooltipPlacement with every fallback on the text direction
getTooltipPlacementByDirection(direction, tooltipPlacement, vertical) ==
    IF Truthy(tooltipPlacement) THEN tooltipPlacement
    ELSE IF direction = "rtl" THEN "left" ELSE "right"

getTooltipPlacement(direction, tooltipPlacement, vertical) ==
    IF Truthy(tooltipPlacement) THEN tooltipPlacement
    ELSE IF ~Truthy(vertical) THEN "top"
    ELSE IF direction = "rtl" THEN "left" ELSE "right"

\* visible without the test that tooltipVisible is undefined
tooltipVisibilityUnchecked(formatter, tooltipVisible, hovered, isDragging) ==
    JsOr(tooltipVisible, IF Truthy(formatter) THEN JsOr(hovered, isDragging) ELSE False)

\* const isTipFormatter = tipFormatter ? visibles[index] || dragging : false;
\* const visible = tooltipVisible || (tooltipVisible === undefined && isTipFormatter);
tooltipVisibility(formatter, tooltipVisible, hovered, isDragging) ==
    LET isTipFormatter == IF Truthy(formatter) THEN JsOr(hovered, isDragging) ELSE False
    IN  JsOr(tooltipVisible, JsAnd(Bool(tooltipVisible = Undefined), isTipFormatter))

\* title={tipFormatter ? tipFormatter(value) : ''}
tooltipTitle(formatter, value) ==
    IF Truthy(formatter) THEN CallFormatter(formatter, value) ELSE ""

\* the attributes in the order: tooltipProps spread first, computed ones after it
SliderTooltipPropsBagFirst(computed, bag, transitionName) ==
    [k \in DOMAIN computed \cup {"transitionName"} |->
        IF k = "transitionName" THEN transitionName ELSE computed[k]]

\* <SliderTooltip prefixCls title visible placement key overlayClassName
\*   getPopupContainer {...tooltipProps} transitionName={transitionName}>:
\* a later attribute replaces an earlier one of the same name
SliderTooltipProps(computed, bag, transitionName) ==
    [k \in DOMAIN computed \cup {"transitionName"} |->
        IF k = "transitionName" THEN transitionName
        ELSE IF k \in BagKeys /\ bag[k] # Absent THEN bag[k]
        ELSE computed[k]]

\* handleWithTooltip({ tooltipPrefixCls, prefixCls, info }) in the closure of a
\* render that saw props p, context cfg and visibility map vis
handleWithTooltip(p, cfg, vis, tooltipPrefixCls, prefixCls, info) ==
    LET formatter == Get(p, "tipFormatter")
        tooltipProps == IF p.tooltipProps.type = "undefined" THEN EmptyBag
                        ELSE p.tooltipProps.own
        visible == tooltipVisibility(formatter, Get(p, "tooltipVisible"),
                                     Get(vis, info.index), info.dragging)
        rootPrefixCls == getPrefixCls(Undefined, Undefined)
        transitionName == getTransitionName(rootPrefixCls, "zoom-down",
                                            Get(tooltipProps, "transitionName"))
        computed == [prefixCls |-> tooltipPrefixCls,
                     title |-> tooltipTitle(formatter, info.value),
                     visible |-> visible,
                     placement |-> getTooltipPlacement(cfg.direction,
                                       Get(p, "tooltipPlacement"), Get(p, "vertical")),
                     key |-> info.index,
                     overlayClassName |-> prefixCls \o "-tooltip",
                     getPopupContainer |-> JsOr(Get(p, "getTooltipPopupContainer"),
                                                cfg.getPopupContainer)]
    IN  SliderTooltipProps(computed, tooltipProps, transitionName)

----------------------------------------------------------------------------
(* The component function *)

PropKeys == {"prefixCls", "tooltipPrefixCls", "reverse", "step", "vertical", "tipFormatter", "tooltipVisible", "tooltipPlacement", "tooltipProps", "getTooltipPopupContainer", "range"}

\* <Slider /> : no attribute given, tipFormatter filled from defaultProps
DefaultProps ==
    [prefixCls |-> Absent, tooltipPrefixCls |-> Absent, reverse |-> Absent,
     step |-> Absent, vertical |-> Absent,
     tipFormatter |-> "Slider.defaultProps.tipFormatter",
     tooltipVisible |-> Absent, tooltipPlacement |-> Absent,
     tooltipProps |-> NoTooltipProps, getTooltipPopupContainer |-> Absent,
     range |-> NoRange]

\* const { prefixCls, tooltipPrefixCls, range, className, ...restProps } = props;
\* restProps is a new object owning the remaining keys
RestProps(p) == [k \in DOMAIN p \ {"prefixCls", "tooltipPrefixCls", "range"} |-> p[k]]

\* if (direction === 'rtl' && !restProps.vertical) restProps.reverse = !restProps.reverse;
Mirror(direction, obj) ==
    IF direction = "rtl" /\ ~Truthy(Get(obj, "vertical"))
    THEN [obj EXCEPT !.reverse = JsNot(Get(obj, "reverse"))]
    ELSE obj

\* the same lines with restProps being props itself instead of a copy
RenderObjectsAliased(p, direction) ==
    [props |-> Mirror(direction, p), restProps |-> Mirror(direction, p)]

\* the same lines without the test on vertical
RenderObjectsAlwaysMirrored(p, direction) ==
    [props |-> p,
     restProps |-> IF direction = "rtl"
                   THEN [RestProps(p) EXCEPT !.reverse = JsNot(Get(p, "reverse"))]
                   ELSE RestProps(p)]

\* the two objects after the destructuring and the rtl adjustment: the props
\* object the caller handed in, and the per-render restProps
RenderObjects(p, direction) ==
    [props |-> p, restProps |-> Mirror(direction, RestProps(p))]

\* let draggableTrack; if (typeof range === 'object') draggableTrack = range.draggableTrack;
extractDraggableTrack(range) ==
    IF range.type = "object" THEN Get(range, "draggableTrack") ELSE Undefined

\* if (range): an object is truthy whatever it owns
RangeTruthy(range) ==
    range.type = "object" \/ (range.type = "boolean" /\ Truthy(range.bool))

\* the primitive chosen by the type of range alone
PrimitiveByType(range) ==
    IF range.type = "object" THEN "RcRange" ELSE "RcSlider"

\* if (range) return <RcRange .../>; return <RcSlider .../>;
Primitive(range) == IF RangeTruthy(range) THEN "RcRange" ELSE "RcSlider"

\* the element the component returns: its type and the attributes it receives
\* ({...restProps} first, then step, draggableTrack, ref, prefixCls)
SliderElement(restProps, range, r, prefixCls) ==
    [type |-> Primitive(range),
     reverse |-> restProps.reverse,
     vertical |-> restProps.vertical,
     step |-> Get(restProps, "step"),
     draggableTrack |-> IF Primitive(range) = "RcRange"
                        THEN extractDraggableTrack(range) ELSE Absent,
     ref |-> r,
     prefixCls |-> prefixCls]

\* const prefixCls = getPrefixCls('slider', customizePrefixCls);
SliderPrefixCls(p) == getPrefixCls("slider", Get(p, "prefixCls"))

\* const tooltipPrefixCls = getPrefixCls('tooltip', customizeTooltipPrefixCls);
TooltipPrefixCls(p) == getPrefixCls("tooltip", Get(p, "tooltipPrefixCls"))

\* the handles the rendered primitive shows
Handles(type) == IF type = "RcRange" THEN 0 .. (RangeHandles - 1) ELSE 0 .. (SingleHandles - 1)

\* the info the primitive passes to the handle generator for handle i
Info(i) == [value |-> values[i], dragging |-> Bool(dragging = i), index |-> i]

\* the tooltip the last render's handle generator produces for handle i, value v
TooltipFor(i, v) ==
    handleWithTooltip(props, config, visibles, TooltipPrefixCls(props),
                      SliderPrefixCls(props), [Info(i) EXCEPT !.value = v])

Tooltip(i) == TooltipFor(i, values[i])

\* the visibility map the next render will see
PendingVisibles == useState(visibles, visibles, queue)

----------------------------------------------------------------------------
(* The inputs the model explores.  Each family varies a few inputs over the *)
(* listed values and leaves every other input at its default.               *)

OwnOnly(k, v) == TooltipPropsObject([EmptyBag EXCEPT ![k] = v])

FullBag ==
    TooltipPropsObject([prefixCls |-> "bag-tooltip", title |-> "bag title",
        visible |-> True, placement |-> "bottomLeft",
        overlayClassName |-> "bag-overlay", getPopupContainer |-> "bagContainer",
        transitionName |-> "fade"])

Bags ==
    {NoTooltipProps, TooltipPropsObject(EmptyBag), FullBag,
     OwnOnly("prefixCls", "bag-tooltip"), OwnOnly("title", "bag title"),
     OwnOnly("title", Undefined), OwnOnly("visible", True), OwnOnly("visible", False),
     OwnOnly("placement", "bottomLeft"), OwnOnly("overlayClassName", "bag-overlay"),
     OwnOnly("getPopupContainer", "bagContainer"),
     OwnOnly("transitionName", "fade"), OwnOnly("transitionName", Undefined)}

Formatters == {"Slider.defaultProps.tipFormatter", Null, "customFormatter"}

DefaultInput ==
    DefaultProps @@ [ref |-> Null, direction |-> Undefined, getPopupContainer |-> Undefined,
                     value0 |-> Num(0), value1 |-> Num(0)]

VisibilityFamily ==
    {[DefaultInput EXCEPT !.tipFormatter = f, !.tooltipVisible = tv, !.tooltipProps = tp,
                          !.range = rg] :
        f \in Formatters, tv \in {Absent, True, False},
        tp \in {NoTooltipProps, OwnOnly("visible", True), OwnOnly("visible", False),
                OwnOnly("visible", Undefined)},
        rg \in {NoRange, BoolRange(True)}}

DirectionFamily ==
    {[DefaultInput EXCEPT !.reverse = rv, !.vertical = vt, !.direction = d] :
        rv \in {Absent, True, False}, vt \in {Absent, True, False},
        d \in {Undefined, "ltr", "rtl"}}

PlacementFamily ==
    {[DefaultInput EXCEPT !.tooltipPlacement = pl, !.vertical = vt, !.direction = d,
                          !.tooltipProps = tp] :
        pl \in {Absent, "bottom"}, vt \in {Absent, True}, d \in {Undefined, "ltr", "rtl"},
        tp \in {NoTooltipProps, OwnOnly("placement", "bottomLeft")}}

ModeFamily ==
    {[DefaultInput EXCEPT !.range = rg, !.step = st, !.ref = r] :
        rg \in {NoRange, BoolRange(False), BoolRange(True), ObjectRange(Absent),
                ObjectRange(True), ObjectRange(False)},
        st \in {Absent, Null, "1"}, r \in {Null, "sliderRef"}}

BagFamily ==
    {[DefaultInput EXCEPT !.tooltipProps = tp, !.getTooltipPopupContainer = c,
                          !.getPopupContainer = g] :
        tp \in Bags, c \in {Absent, "sliderContainer"}, g \in {Undefined, "contextContainer"}}

PrefixFamily ==
    {[DefaultInput EXCEPT !.prefixCls = pc, !.tooltipPrefixCls = tc, !.tooltipProps = tp] :
        pc \in {Absent, "my-slider"}, tc \in {Absent, "my-tooltip"},
        tp \in {NoTooltipProps, OwnOnly("prefixCls", "bag-tooltip"),
                OwnOnly("overlayClassName", "bag-overlay")}}

FormatFamily ==
    {[DefaultInput EXCEPT !.tipFormatter = f, !.value0 = v, !.tooltipProps = tp] :
        f \in Formatters,
        v \in {Num(0), Num(5), Num(-MaxValue), UndefinedValue, StringValue},
        tp \in {NoTooltipProps, OwnOnly("title", "bag title")}}

ValueFamily ==
    {[DefaultInput EXCEPT !.range = rg, !.value0 = v0, !.value1 = v1] :
        rg \in {NoRange, BoolRange(True)}, v0 \in {Num(0), Num(5)}, v1 \in {Num(0), Num(7)}}

\* the inputs explored together with every order of hover events
HoverFamily ==
    {[DefaultInput EXCEPT !.tipFormatter = f, !.tooltipVisible = tv, !.range = rg] :
        f \in Formatters, tv \in {Absent, True, False}, rg \in {NoRange, BoolRange(True)}}

OverrideFamily ==
    {[DefaultInput EXCEPT !.tooltipVisible = tv, !.tooltipProps = tp] :
        tv \in {Absent, True, False},
        tp \in {NoTooltipProps, OwnOnly("visible", True), OwnOnly("visible", False),
                OwnOnly("visible", Undefined)}}

FrameFamily ==
    {[DefaultInput EXCEPT !.ref = r, !.direction = d, !.value0 = v] :
        r \in {Null, "sliderRef"}, d \in {Undefined, "rtl"}, v \in {Num(0), Num(5)}}

EventInputs == HoverFamily \cup OverrideFamily \cup FrameFamily

\* the inputs explored by the renders alone
RenderInputs ==
    VisibilityFamily \cup DirectionFamily \cup PlacementFamily \cup ModeFamily
        \cup BagFamily \cup PrefixFamily \cup FormatFamily \cup ValueFamily

AllowedInputs == EventInputs \cup RenderInputs

\* the values each input takes in some family
Domains == [f \in DOMAIN DefaultInput |-> {a[f] : a \in AllowedInputs}]

Domain(f) == Domains[f]

Input ==
    props @@ [ref |-> ref, direction |-> config.direction,
              getPopupContainer |-> config.getPopupContainer,
              value0 |-> values[0], value1 |-> values[1]]

\* with input f set to v the inputs are among those of A
CanSet(A, f, v) == [Input EXCEPT ![f] = v] \in A

\* the attribute values a caller may write for prop f
Attrs(f) == IF f = "tipFormatter" THEN {Absent, Undefined, Null, "customFormatter"} ELSE Domain(f)

ValueField(i) == IF i = 0 THEN "value0" ELSE "value1"

----------------------------------------------------------------------------
(* The state machine *)

InitialValues == [i \in Index |-> Num(0)]

\* one render of the component with props p, ref r and context cfg: React
\* applies the pending updaters, the body runs, the returned element is
\* committed; a primitive of another type is mounted afresh
Commit(p, r, cfg) ==
    LET o == RenderObjects(p, cfg.direction)
        el == SliderElement(o.restProps, p.range, r, SliderPrefixCls(p))
    IN  /\ props' = o.props
        /\ ref' = r
        /\ config' = cfg
        /\ visibles' = renderedVisibles(visibles, queue, Handles(el.type))
        /\ queue' = <<>>
        /\ element' = el
        /\ dragging' = IF el.type = element.type THEN dragging ELSE NoHandle
        /\ values' = IF el.type = element.type THEN values ELSE InitialValues
        /\ UNCHANGED lastHover

Init ==
    LET cfg == [direction |-> Undefined, getPopupContainer |-> Undefined]
        o == RenderObjects(DefaultProps, cfg.direction)
    IN  /\ props = o.props
        /\ ref = Null
        /\ config = cfg
        /\ values = InitialValues
        /\ visibles = NoVisibles
        /\ queue = <<>>
        /\ dragging = NoHandle
        /\ element = SliderElement(o.restProps, DefaultProps.range, Null,
                                   SliderPrefixCls(DefaultProps))
        /\ lastHover = [i \in Index |-> "none"]

\* the parent renders the slider with attribute f changed to v
SetProps(A, f, v) ==
    LET p == ResolveDefaultProps([props EXCEPT ![f] = v])
    IN  /\ p[f] # props[f]
        /\ CanSet(A, f, p[f])
        /\ Commit(p, ref, config)

\* the parent passes another ref
SetRef(A, r) ==
    /\ r # ref
    /\ CanSet(A, "ref", r)
    /\ Commit(props, r, config)

\* the ConfigContext value changes
SetContext(A, f, v) ==
    /\ v # config[f]
    /\ CanSet(A, f, v)
    /\ Commit(props, ref, [config EXCEPT ![f] = v])

\* React renders the component again with the same props and context
Rerender == Commit(props, ref, config)

\* onMouseEnter={() => toggleTooltipVisible(index, true)}
onMouseEnter(i) ==
    /\ i \in Handles(element.type)
    /\ Len(queue) < MaxQueue
    /\ queue' = toggleTooltipVisible(queue, i, True)
    /\ lastHover' = [lastHover EXCEPT ![i] = "enter"]
    /\ UNCHANGED <<props, ref, config, values, visibles, dragging, element>>

\* onMouseLeave={() => toggleTooltipVisible(index, false)}
onMouseLeave(i) ==
    /\ i \in Handles(element.type)
    /\ Len(queue) < MaxQueue
    /\ queue' = toggleTooltipVisible(queue, i, False)
    /\ lastHover' = [lastHover EXCEPT ![i] = "leave"]
    /\ UNCHANGED <<props, ref, config, values, visibles, dragging, element>>

\* the primitive starts dragging handle i
DragStart(i) ==
    /\ i \in Handles(element.type)
    /\ dragging = NoHandle
    /\ dragging' = i
    /\ UNCHANGED <<props, ref, config, values, visibles, queue, element, lastHover>>

\* the primitive ends the drag
DragEnd ==
    /\ dragging # NoHandle
    /\ dragging' = NoHandle
    /\ UNCHANGED <<props, ref, config, values, visibles, queue, element, lastHover>>

\* the primitive moves handle i to value v
ValueChange(A, i, v) ==
    /\ i \in Handles(element.type)
    /\ v # values[i]
    /\ CanSet(A, ValueField(i), v)
    /\ values' = [values EXCEPT ![i] = v]
    /\ UNCHANGED <<props, ref, config, visibles, queue, dragging, element, lastHover>>

\* the renders, with the inputs ranging over A
Render(A) ==
    \/ \E f \in PropKeys : \E v \in Attrs(f) : SetProps(A, f, v)
    \/ \E r \in Domain("ref") : SetRef(A, r)
    \/ \E f \in {"direction", "getPopupContainer"} : \E v \in Domain(f) : SetContext(A, f, v)
    \/ Rerender

\* what the primitive does by itself
Primitives(A) ==
    \/ \E i \in Index : DragStart(i)
    \/ DragEnd
    \/ \E i \in Index : \E v \in Domain(ValueField(i)) : ValueChange(A, i, v)

Hover ==
    \/ \E i \in Index : onMouseEnter(i)
    \/ \E i \in Index : onMouseLeave(i)

Next == Render(EventInputs) \/ Primitives(EventInputs) \/ Hover

\* every event, on the inputs of the hover families
Spec == Init /\ [][Next]_vars

NextRender == Render(RenderInputs) \/ Primitives(RenderInputs)

\* renders and primitive events only, on the inputs of every render family
SpecRender == Init /\ [][NextRender]_vars

----------------------------------------------------------------------------
(* Properties *)

Rendered == Handles(element.type)

TooltipPropsOwn == IF props.tooltipProps.type = "undefined" THEN EmptyBag ELSE props.tooltipProps.own

BagHas(k) == TooltipPropsOwn[k] # Absent

\* the visibility rule as the specification words it, for handle i
VisibleBySpec(i) ==
    \/ props.tooltipVisible = True
    \/ /\ props.tooltipVisible \in {Absent, Undefined}
       /\ props.tipFormatter \notin {Absent, Undefined, Null}
       /\ (visibles[i] = True \/ dragging = i)

\* C1 as stated: in every reachable state and for every rendered handle i, the
\* tooltip of handle i is visible exactly when tooltipVisible is truthy, or
\* tooltipVisible is undefined and a tipFormatter is configured and (entry i of
\* the visibility map is true or handle i is being dragged).
C1_AsStated == \A i \in Rendered : Truthy(Tooltip(i).visible) <=> VisibleBySpec(i)

\* C1 amended: the rule of C1 gives the tooltip's visibility whenever tooltipProps
\* owns no entry named visible; when it owns one, the tooltip receives that
\* entry's value instead.
C1_VisibleRule ==
    \A i \in Rendered :
        IF BagHas("visible")
        THEN Tooltip(i).visible = TooltipPropsOwn.visible
        ELSE Truthy(Tooltip(i).visible) <=> VisibleBySpec(i)

\* tooltipVisible = false hides the tooltip of a handle that is hovered and dragged
C1_Witness ==
    \E i \in Rendered :
        /\ props.tooltipVisible = False
        /\ props.tipFormatter = "Slider.defaultProps.tipFormatter"
        /\ ~BagHas("visible")
        /\ visibles[i] = True
        /\ dragging = i
        /\ ~Truthy(Tooltip(i).visible)

\* the value the last event of q for index i wrote, old when q holds none
LastWrite(q, i, old) ==
    LET at == {n \in DOMAIN q : q[n].index = i}
    IN  IF at = {} THEN old
        ELSE q[CHOOSE n \in at : \A m \in at : m <= n].visible

HoverStep == \E i \in Index : onMouseEnter(i) \/ onMouseLeave(i)

\* C2: a hover-enter on handle i yields a map whose entry i is true, a hover-leave
\* one whose entry i is false, and either leaves every other entry as it was
\* (same value or same absence); so entry i is true exactly when the last hover
\* event on handle i was an enter.
C2_HoverWrites ==
    /\ [](\A i \in Index : PendingVisibles[i] = True <=> lastHover[i] = "enter")
    /\ [][\A i \in Index :
            /\ onMouseEnter(i) =>
                 /\ PendingVisibles'[i] = True
                 /\ \A j \in Index \ {i} : PendingVisibles'[j] = PendingVisibles[j]
            /\ onMouseLeave(i) =>
                 /\ PendingVisibles'[i] = False
                 /\ \A j \in Index \ {i} : PendingVisibles'[j] = PendingVisibles[j]]_vars

\* handle 0 was left and handle 1 entered, both after earlier hovers
C2_Witness ==
    /\ lastHover[0] = "leave"
    /\ lastHover[1] = "enter"
    /\ visibles[0] = False
    /\ visibles[1] = True
    /\ queue = <<>>

\* C8: only hover-enter and hover-leave write the visibility map: a re-render, a
\* drag start or end, a value change, a change of props, ref or context and a
\* switch between the single and the range primitive leave it unchanged; no
\* entry is ever removed, and an entry that is true stays true until a
\* hover-leave on its index.
C8_OnlyHoverWrites ==
    /\ [][~HoverStep => PendingVisibles' = PendingVisibles]_vars
    /\ [][\A i \in Index :
            /\ PendingVisibles[i] # Absent => PendingVisibles'[i] # Absent
            /\ (PendingVisibles[i] = True /\ ~onMouseLeave(i)) =>
                  PendingVisibles'[i] = True]_vars

\* the single primitive is rendered and the map still holds a true entry for
\* handle 1, which only the range primitive shows
C8_Witness ==
    /\ element.type = "RcSlider"
    /\ 1 \notin Rendered
    /\ visibles[1] = True
    /\ queue = <<>>

\* C10: when several hover events are dispatched before the component renders
\* again, none is lost: the map the next render sees has, for every index, the
\* value the last event for that index wrote, and the earlier value where no
\* event wrote.
C10_NoLostUpdate ==
    /\ [](\A i \in Index : PendingVisibles[i] = LastWrite(queue, i, visibles[i]))
    /\ [][queue' = <<>> => \A i \in Index : visibles'[i] = LastWrite(queue, i, visibles[i])]_vars

\* two events on different handles wait for the same render, and both count
C10_Witness ==
    /\ Len(queue) = 2
    /\ queue[1].index # queue[2].index
    /\ queue[1].visible = True
    /\ queue[2].visible = True
    /\ visibles = NoVisibles
    /\ PendingVisibles[0] = True
    /\ PendingVisibles[1] = True

----------------------------------------------------------------------------
(* Properties of a render *)

Rtl == config.direction = "rtl"

Vertical == props.vertical \notin {Absent, Undefined, False}

\* C3: the reverse flag the primitive receives is (the caller's reverse, undefined
\* counting as false) XOR (direction is rtl and vertical is not truthy): negated
\* under rtl when not vertical, never inverted when vertical, and the caller's
\* own value under a direction other than rtl.
C3_Reverse ==
    /\ (element.reverse = True) <=> ((props.reverse = True) # (Rtl /\ ~Vertical))
    /\ (Rtl /\ ~Vertical) => element.reverse = (IF props.reverse = True THEN False ELSE True)
    /\ ~(Rtl /\ ~Vertical) => element.reverse = props.reverse

\* rtl, horizontal, no reverse given: the primitive receives reverse = true
C3_Witness ==
    /\ Rtl
    /\ props.vertical = Absent
    /\ props.reverse = Absent
    /\ element.reverse = True

\* C9: a render never modifies the props object it is handed; under rtl with
\* vertical not set, rendering again with the same props forwards the same
\* reverse flag, the negation of the caller's reverse, and leaves the caller's
\* reverse as it was.
C9_PropsUntouched ==
    /\ [][(\/ Rerender
           \/ \E r \in Domain("ref") : SetRef(RenderInputs, r)
           \/ \E f \in {"direction", "getPopupContainer"} : \E v \in Domain(f) :
                 SetContext(RenderInputs, f, v)) => props' = props]_vars
    /\ [][\A f \in PropKeys : \A v \in Attrs(f) :
            SetProps(RenderInputs, f, v) => props' = ResolveDefaultProps([props EXCEPT ![f] = v])]_vars
    /\ [][(Rerender /\ Rtl /\ ~Vertical) =>
            /\ props'.reverse = props.reverse
            /\ element'.reverse = element.reverse
            /\ element'.reverse = (IF props.reverse = True THEN False ELSE True)]_vars

\* rtl, horizontal, the caller passes reverse = true: the caller still holds
\* true and the primitive receives false
C9_Witness ==
    /\ Rtl
    /\ ~Vertical
    /\ props.reverse = True
    /\ element.reverse = False

\* the placement rule as the specification words it
PlacementBySpec ==
    IF props.tooltipPlacement \notin {Absent, Undefined} THEN props.tooltipPlacement
    ELSE IF ~Vertical THEN "top"
    ELSE IF Rtl THEN "left" ELSE "right"

\* C4 as stated: for every configuration the tooltip of a handle receives the
\* explicit tooltipPlacement when one is given, else "top" when horizontal, else
\* "right" under ltr and "left" under rtl.
C4_AsStated == \A i \in Rendered : Tooltip(i).placement = PlacementBySpec

\* C4 amended: the rule of C4 gives the placement whenever tooltipProps owns no
\* entry named placement; when it owns one, the tooltip receives that entry.
C4_Placement ==
    \A i \in Rendered :
        Tooltip(i).placement =
            IF BagHas("placement") THEN TooltipPropsOwn.placement ELSE PlacementBySpec

\* vertical, rtl, nothing explicit: the tooltip is placed left
C4_Witness ==
    /\ Vertical
    /\ Rtl
    /\ props.tooltipPlacement = Absent
    /\ ~BagHas("placement")
    /\ Tooltip(0).placement = "left"

\* C5: the single primitive is rendered when range is absent or false, the range
\* primitive when range is true or any object; the range primitive receives
\* range.draggableTrack when range is an object and undefined when range is
\* true; step (null included) and ref reach the primitive unchanged.
C5_Mode ==
    /\ element.type = (IF props.range \in {NoRange, BoolRange(False)} THEN "RcSlider" ELSE "RcRange")
    /\ props.range.type = "object" =>
          element.draggableTrack = (IF props.range.draggableTrack = Absent THEN Undefined
                                    ELSE props.range.draggableTrack)
    /\ props.range = BoolRange(True) => element.draggableTrack = Undefined
    /\ element.step = (IF props.step = Absent THEN Undefined ELSE props.step)
    /\ element.ref = ref

\* range = { draggableTrack: true } with step = null and a ref
C5_Witness ==
    /\ props.range = ObjectRange(True)
    /\ props.step = Null
    /\ ref = "sliderRef"
    /\ element.type = "RcRange"
    /\ element.draggableTrack = True
    /\ element.step = Null
    /\ element.ref = "sliderRef"

\* C6: an entry of tooltipProps named title, visible, placement,
\* getPopupContainer, prefixCls or overlayClassName replaces the value the
\* component computes; transitionName is always the value computed from the root
\* prefix, "zoom-down" and tooltipProps.transitionName, never the raw entry.
C6_BagPrecedence ==
    \A i \in Rendered :
        /\ \A k \in BagKeys \ {"transitionName"} :
              BagHas(k) => Tooltip(i)[k] = TooltipPropsOwn[k]
        /\ Tooltip(i).transitionName =
              getTransitionName(getPrefixCls(Undefined, Undefined), "zoom-down",
                  IF BagHas("transitionName") THEN TooltipPropsOwn.transitionName ELSE Undefined)

\* a bag owning every key, rendered while the slider passes its own container
C6_Witness ==
    /\ props.tooltipProps = FullBag
    /\ props.getTooltipPopupContainer = "sliderContainer"
    /\ Tooltip(0).title = "bag title"
    /\ Tooltip(0).visible = True
    /\ Tooltip(0).placement = "bottomLeft"
    /\ Tooltip(0).getPopupContainer = "bagContainer"
    /\ Tooltip(0).prefixCls = "bag-tooltip"
    /\ Tooltip(0).overlayClassName = "bag-overlay"

\* the tooltip text as the specification words it, for value v
TitleBySpec(v) ==
    IF props.tipFormatter = Null THEN ""
    ELSE IF props.tipFormatter = "Slider.defaultProps.tipFormatter"
         THEN (IF v.type = "number" THEN ToString(v.num) ELSE "")
         ELSE customFormatter(v)

\* C7 as stated: for every handle value v the tooltip text is the configured
\* tipFormatter applied to v, empty when tipFormatter is null; the default
\* formatter gives the decimal string of a number and the empty string otherwise.
C7_AsStated == \A i \in Rendered : \A v \in HandleValues : TooltipFor(i, v).title = TitleBySpec(v)

\* C7 amended: the rule of C7 gives the tooltip text whenever tooltipProps owns no
\* entry named title; when it owns one, the tooltip receives that entry.
C7_Title ==
    \A i \in Rendered : \A v \in HandleValues :
        TooltipFor(i, v).title = IF BagHas("title") THEN TooltipPropsOwn.title ELSE TitleBySpec(v)

\* the default formatter shows handle value 5 as "5"
C7_Witness ==
    /\ props.tipFormatter = "Slider.defaultProps.tipFormatter"
    /\ ~BagHas("title")
    /\ values[0] = Num(5)
    /\ Tooltip(0).title = "5"

====
